---------------------------- MODULE Spec2Model ----------------------------
(***************************************************************************)
(* The temporal feature functions of src/feature_engineering/              *)
(* new_features.py: calculate_time_delta, process_chunk,                   *)
(* transactions_in_last_interval, transactions_last_minute and             *)
(* calculate_time_for_n_transactions.                                      *)
(*                                                                         *)
(* A DataFrame is a sequence of rows [id, key, ts] in its original order:  *)
(* id is the index label (the row's original position), key the value of   *)
(* the reference column(s) (tuple(row[ref_cols])), ts the time column in   *)
(* whole seconds.  A Series is a sequence of [id, val] entries in the      *)
(* Series' own order; val is <<x>> for a number x and <<>> for NaN/NaT.    *)
(* emitted records the order in which the pool's workers finished their    *)
(* chunks.                                                                 *)
(***************************************************************************)
EXTENDS Integers, Sequences, FiniteSets

VARIABLES df, op, interval_minutes, n_processes, n, pc,
          sorted_df, chunks, finished, emitted, results, result, error

vars == <<df, op, interval_minutes, n_processes, n, pc,
          sorted_df, chunks, finished, emitted, results, result, error>>

(***************************************************************************)
(* Bounds of the model and the input domains.                              *)
(***************************************************************************)
MaxLen == 3

MaxN == 3

SecondsPerMinute == 60

Keys == {1, 2}

TimeVals == {0, 10, 70}

IntervalVals == {-1, 0, 1}

ProcessVals == 0 .. (MaxLen + 1)

NVals == 0 .. MaxN

NaN == <<>>

Num(x) == <<x>>

DataFrame(rows) ==
    [i \in DOMAIN rows |-> [id |-> i, key |-> rows[i][1], ts |-> rows[i][2]]]

\* Spec section 8, property 3: one group at 0s, 10s, 70s, 75s.
WindowExample == DataFrame(<< <<1, 0>>, <<1, 10>>, <<1, 70>>, <<1, 75>> >>)

\* Spec section 8, property 2: one group at t0, t0+5s, t0+5s, t0+20s (t0 = 0).
DeltaExample == DataFrame(<< <<1, 0>>, <<1, 5>>, <<1, 5>>, <<1, 20>> >>)

\* Spec section 8, property 4: timestamps 0, 5, 9, 20, 30.
NthExample == DataFrame(<< <<1, 0>>, <<2, 5>>, <<1, 9>>, <<2, 20>>, <<1, 30>> >>)

Stores ==
    { DataFrame(rows) :
        rows \in UNION { [1 .. len -> Keys \X TimeVals] : len \in 0 .. MaxLen } }
    \cup {WindowExample, DeltaExample, NthExample}

(***************************************************************************)
(* pandas helpers.                                                         *)
(***************************************************************************)
Front(s) == SubSeq(s, 1, Len(s) - 1)

Last(s) == s[Len(s)]

\* timedelta(minutes=m), in the unit of ts.
timedelta(minutes) == minutes * SecondsPerMinute

\* Timedelta.total_seconds(): ts is kept in seconds; NaT becomes NaN.
total_seconds(d) == IF d = NaN THEN NaN ELSE Num(d[1])

\* The order of sort_values(by=ref_cols + [time_col]).
RefTimeLE(a, b) == a.key < b.key \/ (a.key = b.key /\ a.ts <= b.ts)

\* Insert row r behind every row that is not greater: the sort stays stable.
RECURSIVE InsertByRefTime(_, _)
InsertByRefTime(r, s) ==
    IF s = <<>> THEN <<r>>
    ELSE IF RefTimeLE(Last(s), r) THEN Append(s, r)
    ELSE Append(InsertByRefTime(r, Front(s)), Last(s))

\* df.sort_values(by=[ref..., time_col]): several keys, so a stable lexsort.
RECURSIVE sort_values_ref_time(_)
sort_values_ref_time(d) ==
    IF d = <<>> THEN <<>>
    ELSE InsertByRefTime(Last(d), sort_values_ref_time(Front(d)))

\* df.sort_values(by=[time_column]): one key, sorted with the default
\* kind='quicksort', which is not stable: every ascending arrangement of the
\* rows is a possible outcome.
sort_values_time(d) ==
    { [i \in DOMAIN d |-> d[p[i]]] :
        p \in { q \in [DOMAIN d -> DOMAIN d] :
                  /\ \A i, j \in DOMAIN d : i # j => q[i] # q[j]
                  /\ \A i \in DOMAIN d : i < Len(d) => d[q[i]].ts <= d[q[i + 1]].ts } }

\* The set of positions of a Series that carry label id.
Positions(series, id) == { i \in DOMAIN series : series[i].id = id }

\* The Series returned as it is, without the reindex.
NoReindex(series, index) == series

\* Series.reindex(index): one entry per label of index, in index order; NaN
\* for a label the Series lacks.
reindex(series, index) ==
    [k \in DOMAIN index |->
        IF Positions(series, index[k]) = {}
        THEN [id |-> index[k], val |-> NaN]
        ELSE [id |-> index[k],
              val |-> series[CHOOSE i \in Positions(series, index[k]) : TRUE].val]]

\* df.index
Index(d) == [i \in DOMAIN d |-> d[i].id]

\* pd.concat(list of Series)
RECURSIVE pd_concat(_)
pd_concat(list) ==
    IF list = <<>> THEN <<>> ELSE pd_concat(Front(list)) \o Last(list)

Max(S) == CHOOSE x \in S : \A y \in S : y <= x

Min2(a, b) == IF a <= b THEN a ELSE b

(***************************************************************************)
(* calculate_time_delta                                                    *)
(***************************************************************************)
\* time_col.diff() without the groupby: each row against the row before it.
PlainDiff(d) ==
    [i \in DOMAIN d |->
        [id |-> d[i].id,
         val |-> IF i = 1 THEN NaN ELSE Num(d[i].ts - d[i - 1].ts)]]

\* df.groupby(ref_col)[time_col].diff(): each row against the previous row of
\* its own group, NaT for a group's first row; the index is that of d.
groupby_diff(d) ==
    [i \in DOMAIN d |->
        LET before == { j \in 1 .. (i - 1) : d[j].key = d[i].key }
        IN  [id |-> d[i].id,
             val |-> IF before = {} THEN NaN
                     ELSE Num(d[i].ts - d[Max(before)].ts)]]

\* Series.dt.total_seconds()
dt_total_seconds(series) ==
    [i \in DOMAIN series |->
        [id |-> series[i].id, val |-> total_seconds(series[i].val)]]

calculate_time_delta(d) ==
    dt_total_seconds(groupby_diff(sort_values_ref_time(d)))

(***************************************************************************)
(* process_chunk                                                           *)
(***************************************************************************)
\* The eviction loop with <= in place of <.
RECURSIVE EvictThroughCutoff(_, _)
EvictThroughCutoff(window, interval_ago) ==
    IF window # <<>> /\ window[1][2] <= interval_ago
    THEN EvictThroughCutoff(Tail(window), interval_ago)
    ELSE window

\* while window and window[0][1] < interval_ago: window.popleft()
RECURSIVE Evict(_, _)
Evict(window, interval_ago) ==
    IF window # <<>> /\ window[1][2] < interval_ago
    THEN Evict(Tail(window), interval_ago)
    ELSE window

\* The for loop of process_chunk over the rows of chunk: the window and the
\* counts after the last row.
RECURSIVE process_chunk_loop(_, _)
process_chunk_loop(chunk, minutes) ==
    IF chunk = <<>>
    THEN [window |-> <<>>, last_interval_counts |-> <<>>]
    ELSE LET before == process_chunk_loop(Front(chunk), minutes)
             row == Last(chunk)
             current_time == row.ts
             interval_ago == current_time - timedelta(minutes)
             window == Append(Evict(before.window, interval_ago),
                              <<row.key, current_time>>)
             count_in_window ==
                 Cardinality({ i \in DOMAIN window : window[i][1] = row.key })
         IN  [window |-> window,
              last_interval_counts |->
                  Append(before.last_interval_counts, count_in_window)]

\* pd.Series(last_interval_counts, index=chunk.index)
process_chunk(chunk, minutes) ==
    [i \in DOMAIN chunk |->
        [id |-> chunk[i].id,
         val |-> Num(process_chunk_loop(chunk, minutes).last_interval_counts[i])]]

(***************************************************************************)
(* transactions_in_last_interval                                           *)
(***************************************************************************)
\* len(sorted_df) // n_processes, for n_processes > 0
ChunkSize(d, processes) == Len(d) \div processes

\* [sorted_df.iloc[i:i + chunk_size] for i in range(0, len(sorted_df), chunk_size)]
Chunks(d, chunk_size) ==
    [k \in 1 .. ((Len(d) + chunk_size - 1) \div chunk_size) |->
        SubSeq(d, (k - 1) * chunk_size + 1, Min2(k * chunk_size, Len(d)))]

(***************************************************************************)
(* transactions_last_minute                                                *)
(***************************************************************************)
transactions_last_minute(d) ==
    [i \in DOMAIN d |->
        LET timestamp == d[i].ts
            one_minute_ago == timestamp - timedelta(1)
        IN  [id |-> d[i].id,
             val |-> Num(Cardinality({ j \in DOMAIN d :
                         d[j].ts > one_minute_ago /\ d[j].ts <= timestamp }))]]

(***************************************************************************)
(* calculate_time_for_n_transactions                                       *)
(***************************************************************************)
\* Series.shift(periods) of the time column of d: NaT where no row lines up.
shift(d, periods) ==
    [i \in DOMAIN d |->
        [id |-> d[i].id,
         val |-> IF (i - periods) \in DOMAIN d THEN Num(d[i - periods].ts) ELSE NaN]]

\* df_sorted[time_column] - shifted: NaT wherever shifted is NaT.
time_minus(d, shifted) ==
    [i \in DOMAIN d |->
        [id |-> d[i].id,
         val |-> IF shifted[i].val = NaN THEN NaN
                 ELSE Num(d[i].ts - shifted[i].val[1])]]

\* Series.dropna(): the entries that are not NaN.
RECURSIVE dropna(_)
dropna(series) ==
    IF series = <<>> THEN <<>>
    ELSE IF Last(series).val = NaN THEN dropna(Front(series))
    ELSE Append(dropna(Front(series)), Last(series))

\* Series.fillna(0)
fillna0(series) ==
    [i \in DOMAIN series |->
        [id |-> series[i].id,
         val |-> IF series[i].val = NaN THEN Num(0) ELSE series[i].val]]

\* The difference taken against the row n positions back.
NthDifferenceOffByOne(df_sorted, count) ==
    dt_total_seconds(time_minus(df_sorted, shift(df_sorted, count)))

\* Lines 270-273: the difference against the row n-1 positions back, in seconds.
NthDifference(df_sorted, count) ==
    dt_total_seconds(time_minus(df_sorted, shift(df_sorted, count - 1)))

\* The body of calculate_time_for_n_transactions on one outcome of the sort.
calculate_time_for_n_transactions(df_sorted, count) ==
    fillna0(NthDifference(df_sorted, count))

(***************************************************************************)
(* The state machine: one call of one feature function on a Record Store.  *)
(***************************************************************************)
Init ==
    /\ df \in Stores
    /\ op = "none"
    /\ interval_minutes = 0
    /\ n_processes = 0
    /\ n = 0
    /\ pc = "idle"
    /\ sorted_df = <<>>
    /\ chunks = <<>>
    /\ finished = <<>>
    /\ emitted = <<>>
    /\ results = <<>>
    /\ result = <<>>
    /\ error = "none"

\* calculate_time_delta(df, time_col, ref_col)
CallTimeDelta ==
    /\ pc = "idle"
    /\ op' = "calculate_time_delta"
    /\ sorted_df' = sort_values_ref_time(df)
    /\ result' = calculate_time_delta(df)
    /\ pc' = "done"
    /\ UNCHANGED <<df, interval_minutes, n_processes, n, chunks, finished,
                   emitted, results, error>>

\* transactions_last_minute(df, time_col)
CallLastMinute ==
    /\ pc = "idle"
    /\ op' = "transactions_last_minute"
    /\ result' = transactions_last_minute(df)
    /\ pc' = "done"
    /\ UNCHANGED <<df, interval_minutes, n_processes, n, sorted_df, chunks,
                   finished, emitted, results, error>>

\* calculate_time_for_n_transactions(df, time_column, n)
CallTimeForN(count) ==
    /\ pc = "idle"
    /\ op' = "calculate_time_for_n_transactions"
    /\ n' = count
    /\ \E df_sorted \in sort_values_time(df) :
          /\ sorted_df' = df_sorted
          /\ result' = calculate_time_for_n_transactions(df_sorted, count)
    /\ pc' = "done"
    /\ UNCHANGED <<df, interval_minutes, n_processes, chunks, finished,
                   emitted, results, error>>

\* transactions_in_last_interval, lines 175-186: sort, split into chunks and
\* open the pool.  n_processes = 0 fails in the division, a chunk size of 0 in
\* range().
CallInterval(minutes, processes) ==
    /\ pc = "idle"
    /\ op' = "transactions_in_last_interval"
    /\ interval_minutes' = minutes
    /\ n_processes' = processes
    /\ sorted_df' = sort_values_ref_time(df)
    /\ IF processes = 0
       THEN /\ error' = "ZeroDivisionError"
            /\ pc' = "error"
            /\ UNCHANGED <<chunks, finished>>
       ELSE IF ChunkSize(df, processes) = 0
       THEN /\ error' = "ValueError"
            /\ pc' = "error"
            /\ UNCHANGED <<chunks, finished>>
       ELSE /\ chunks' = Chunks(sort_values_ref_time(df), ChunkSize(df, processes))
            /\ finished' = [k \in DOMAIN chunks' |-> NaN]
            /\ pc' = "pool"
            /\ UNCHANGED error
    /\ UNCHANGED <<df, n, emitted, results, result>>

\* A pool worker finishes process_chunk on chunk k.  Tasks are handed out in
\* order to n_processes workers, so fewer than n_processes unfinished chunks
\* precede a running one.
WorkerFinish(k) ==
    /\ pc = "pool"
    /\ k \in DOMAIN chunks
    /\ finished[k] = NaN
    /\ Cardinality({ j \in 1 .. (k - 1) : finished[j] = NaN }) < n_processes
    /\ finished' = [finished EXCEPT ![k] = <<process_chunk(chunks[k], interval_minutes)>>]
    /\ emitted' = Append(emitted, k)
    /\ UNCHANGED <<df, op, interval_minutes, n_processes, n, pc, sorted_df,
                   chunks, results, result, error>>

\* One turn of "for result in pool.imap(...)": imap yields in task order.
Collect ==
    /\ pc = "pool"
    /\ Len(results) < Len(chunks)
    /\ finished[Len(results) + 1] # NaN
    /\ results' = Append(results, finished[Len(results) + 1][1])
    /\ UNCHANGED <<df, op, interval_minutes, n_processes, n, pc, sorted_df,
                   chunks, finished, emitted, result, error>>

\* Lines 195-198: concat and reindex to df.index.
Combine ==
    /\ pc = "pool"
    /\ Len(results) = Len(chunks)
    /\ result' = reindex(pd_concat(results), Index(df))
    /\ pc' = "done"
    /\ UNCHANGED <<df, op, interval_minutes, n_processes, n, sorted_df,
                   chunks, finished, emitted, results, error>>

Next ==
    \/ CallTimeDelta
    \/ CallLastMinute
    \/ \E count \in NVals : CallTimeForN(count)
    \/ \E minutes \in IntervalVals, processes \in ProcessVals :
          CallInterval(minutes, processes)
    \/ \E k \in DOMAIN chunks : WorkerFinish(k)
    \/ Collect
    \/ Combine

Spec == Init /\ [][Next]_vars

(***************************************************************************)
(* Vocabulary of the properties.                                           *)
(***************************************************************************)
Done(name) == pc = "done" /\ op = name

\* The value a Series carries for label id.
ValueOf(series, id) == series[CHOOSE i \in Positions(series, id) : TRUE].val

\* A run of transactions_in_last_interval whose chunk list is the whole
\* normalized sequence.
SinglePass == Done("transactions_in_last_interval") /\ Len(chunks) = 1

SingleGroup == \A i, j \in DOMAIN df : df[i].key = df[j].key

\* Rows of df in the trailing window (t - interval, t] of row i, same group.
TrailingWindow(i) ==
    { j \in DOMAIN df :
        /\ df[j].key = df[i].key
        /\ df[j].ts > df[i].ts - timedelta(interval_minutes)
        /\ df[j].ts <= df[i].ts }

\* C1: the chunked run returns, for every record, the count a single pass of
\* process_chunk over the whole normalized sequence returns.
ChunkingInvariance ==
    (Done("transactions_in_last_interval") /\ interval_minutes >= 1) =>
        result = reindex(process_chunk(sorted_df, interval_minutes), Index(df))

\* C2: the returned Series of calculate_time_delta,
\* transactions_in_last_interval and calculate_time_for_n_transactions has
\* exactly one entry per record identity of df, and no other entry.
ResultCardinalityIdentity ==
    (pc = "done" /\ op \in {"calculate_time_delta",
                            "transactions_in_last_interval",
                            "calculate_time_for_n_transactions"}) =>
        /\ Len(result) = Len(df)
        /\ \A i \in DOMAIN df : Cardinality(Positions(result, df[i].id)) = 1
        /\ \A k \in DOMAIN result : \E i \in DOMAIN df : df[i].id = result[k].id

\* C2 witness: calculate_time_for_n_transactions returned for n = 3 on three
\* records in an order that is not the time order.
ResultCardinalityIdentityWitness ==
    /\ Done("calculate_time_for_n_transactions")
    /\ n = 3
    /\ Len(df) = 3
    /\ sorted_df # df

\* C3: in a single-pass run the count of each record is the number of records
\* of its group with a timestamp in (current - interval, current].
TrailingWindowSemantics ==
    (SinglePass /\ interval_minutes >= 1) =>
        \A i \in DOMAIN df :
            ValueOf(result, df[i].id) = Num(Cardinality(TrailingWindow(i)))

\* C4: for one group in one chunk, the count of a record is itself plus the
\* earlier records that are not strictly earlier than current - interval (a
\* record exactly at the cutoff is kept and counted); 0s, 10s, 70s, 75s with
\* a 1 minute interval give 1, 2, 2, 2.
StrictLowerBoundEviction ==
    (SinglePass /\ SingleGroup) =>
        /\ \A i \in DOMAIN sorted_df :
              ValueOf(result, sorted_df[i].id) =
                  Num(1 + Cardinality({ j \in 1 .. (i - 1) :
                            sorted_df[j].ts >=
                                sorted_df[i].ts - timedelta(interval_minutes) }))
        /\ (df = WindowExample /\ interval_minutes = 1) =>
              [k \in DOMAIN result |-> result[k].val] =
                  <<Num(1), Num(2), Num(2), Num(2)>>

\* C4 witness: the single pass over 0s, 10s, 70s, 75s with a 1 minute interval.
StrictLowerBoundEvictionWitness ==
    /\ SinglePass
    /\ df = WindowExample
    /\ interval_minutes = 1

\* Rows of df that come before row i in its group in (timestamp, identity) order.
GroupPredecessors(i) ==
    { j \in DOMAIN df :
        /\ df[j].key = df[i].key
        /\ \/ df[j].ts < df[i].ts
           \/ (df[j].ts = df[i].ts /\ df[j].id < df[i].id) }

\* C5: calculate_time_delta gives a group's first record NaN and every other
\* record its timestamp minus that of the record just before it in its own
\* group; defined deltas are >= 0; t0, t0+5, t0+5, t0+20 gives NaN, 5, 0, 15.
GroupedDelta ==
    Done("calculate_time_delta") =>
        /\ \A i \in DOMAIN df :
              /\ GroupPredecessors(i) = {} => ValueOf(result, df[i].id) = NaN
              /\ GroupPredecessors(i) # {} =>
                    /\ ValueOf(result, df[i].id) =
                           Num(df[i].ts - Max({ df[j].ts : j \in GroupPredecessors(i) }))
                    /\ ValueOf(result, df[i].id)[1] >= 0
        /\ df = DeltaExample =>
              [k \in DOMAIN result |-> result[k].val] = <<NaN, Num(5), Num(0), Num(15)>>

\* C5 witness: two groups, the second group's first record after a record of
\* the first group, and a record with a predecessor in its group.
GroupedDeltaWitness ==
    /\ Done("calculate_time_delta")
    /\ Len(df) = 3
    /\ \E k \in 2 .. Len(result) :
          /\ result[k].val = NaN
          /\ sorted_df[k - 1].key # sorted_df[k].key
    /\ \E k \in DOMAIN result : result[k].val # NaN /\ result[k].val # Num(0)

\* The timestamp of the record at position k of the returned Series.
ResultTime(k) == df[CHOOSE i \in DOMAIN df : df[i].id = result[k].id].ts

\* C6: for n >= 1 the Series of calculate_time_for_n_transactions is in
\* ascending time order and carries timestamp[i] - timestamp[i-(n-1)] at every
\* position with n-1 predecessors and 0 before; n = 1 gives 0 everywhere;
\* n = 3 on 0, 5, 9, 20, 30 gives 0, 0, 9, 15, 21.
NthInterval ==
    (Done("calculate_time_for_n_transactions") /\ n >= 1) =>
        /\ \A k \in DOMAIN result :
              /\ k > 1 => ResultTime(k - 1) <= ResultTime(k)
              /\ k - (n - 1) >= 1 =>
                    result[k].val = Num(ResultTime(k) - ResultTime(k - (n - 1)))
              /\ k - (n - 1) < 1 => result[k].val = Num(0)
        /\ n = 1 => \A k \in DOMAIN result : result[k].val = Num(0)
        /\ (df = NthExample /\ n = 3) =>
              [k \in DOMAIN result |-> result[k].val] =
                  <<Num(0), Num(0), Num(9), Num(15), Num(21)>>

\* C6 witness: n = 3 on the timestamps 0, 5, 9, 20, 30.
NthIntervalWitness ==
    /\ Done("calculate_time_for_n_transactions")
    /\ df = NthExample
    /\ n = 3

\* C7: a call, on a non-empty df, of transactions_in_last_interval with
\* interval_minutes <= 0, or of calculate_time_for_n_transactions with n < 1,
\* ends in an error and returns no Series.
ValidationFailsFast ==
    (/\ Len(df) >= 1
     /\ \/ op = "transactions_in_last_interval" /\ interval_minutes <= 0
        \/ op = "calculate_time_for_n_transactions" /\ n < 1)
        => (pc = "error" /\ result = <<>>)

\* C8: position k of the Series returned by calculate_time_delta and by
\* calculate_time_for_n_transactions carries the identity of the k-th record.
OriginalOrderOutput ==
    (pc = "done" /\ op \in {"calculate_time_delta",
                            "calculate_time_for_n_transactions"}) =>
        \A k \in DOMAIN result : result[k].id = df[k].id

\* C9: transactions_last_minute counts, for each record, the transactions in
\* the last minute before it, and an earliest transaction has the count 0.
LastMinuteCountsBefore ==
    Done("transactions_last_minute") =>
        \A i \in DOMAIN df :
            /\ ValueOf(result, df[i].id) =
                   Num(Cardinality({ j \in DOMAIN df :
                           /\ df[j].ts > df[i].ts - timedelta(1)
                           /\ df[j].ts < df[i].ts }))
            /\ (\A j \in DOMAIN df : df[i].ts <= df[j].ts) =>
                   ValueOf(result, df[i].id) = Num(0)

\* C10: with two or more groups, after each record of a chunk is processed
\* the window holds no entry strictly earlier than current - interval.
EvictionComplete ==
    (op = "transactions_in_last_interval" /\ pc \in {"pool", "done"}
       /\ interval_minutes >= 1 /\ ~SingleGroup) =>
        \A c \in DOMAIN chunks : \A k \in DOMAIN chunks[c] :
            LET window == process_chunk_loop(SubSeq(chunks[c], 1, k),
                                             interval_minutes).window
                interval_ago == chunks[c][k].ts - timedelta(interval_minutes)
            IN  \A e \in DOMAIN window : ~(window[e][2] < interval_ago)

\* C11: whatever the order in which the workers finished, the Series returned
\* by transactions_in_last_interval lists the identities in the original
\* order of df and gives each the count computed by the chunk that holds it.
WorkerOrderIndependence ==
    Done("transactions_in_last_interval") =>
        /\ Len(result) = Len(df)
        /\ \A k \in DOMAIN df : result[k].id = df[k].id
        /\ \A c \in DOMAIN chunks : \A i \in DOMAIN chunks[c] :
              ValueOf(result, chunks[c][i].id) =
                  process_chunk(chunks[c], interval_minutes)[i].val

\* C11 witness: the call returned after a later chunk finished before an
\* earlier one, on a df whose original order is not the normalized order.
WorkerOrderIndependenceWitness ==
    /\ Done("transactions_in_last_interval")
    /\ sorted_df # df
    /\ \E a, b \in DOMAIN emitted : a < b /\ emitted[a] > emitted[b]

\* The rows of a list of chunks, one chunk after the other.
RECURSIVE Concatenation(_)
Concatenation(list) ==
    IF list = <<>> THEN <<>> ELSE Concatenation(Front(list)) \o Last(list)

\* C12: for a non-empty df and any n_processes >= 1 the call does not fail:
\* it splits the normalized sequence into non-empty contiguous chunks that
\* cover every record exactly once.
TotalChunkPartition ==
    (/\ op = "transactions_in_last_interval"
     /\ Len(df) >= 1
     /\ n_processes >= 1) =>
        /\ pc \in {"pool", "done"}
        /\ \A c \in DOMAIN chunks : chunks[c] # <<>>
        /\ Concatenation(chunks) = sorted_df

=============================================================================
